---- MODULE Spec2Model ----
(***************************************************************************)
(* Model of provider/bitmovin/bitmovin.go: the bitmovin provider of the    *)
(* video-transcoding-api.  The provider holds no state of its own; the     *)
(* state is the remote service's catalog of AAC and H264 codec             *)
(* configurations and the position of every caller inside the provider    *)
(* operation it is running; the phases of a remote job are an input of     *)
(* the status query.  Each remote call                                     *)
(* is one atomic step, so concurrent callers interleave between calls.     *)
(*                                                                         *)
(* The remote service is the environment: every remote call may end with   *)
(* status SUCCESS, with status ERROR or with a transport error; the        *)
(* service assigns increasing identifiers and lists configurations in the  *)
(* order of their creation.                                                *)
(*                                                                         *)
(* Go strings are sequences of one-character strings, so that ToLower and  *)
(* Atoi are computed and not assumed.  A Go pointer field is a sequence of *)
(* length 0 (nil) or 1.  Remote identifiers are positive numbers; the      *)
(* empty identifier "" is 0.                                               *)
(***************************************************************************)
EXTENDS Integers, Sequences, FiniteSets, TLC

(***************************************************************************)
(* Bounds of the model.                                                    *)
(***************************************************************************)
\* operations the callers start in one behaviour, all callers together
MaxOps == 2

\* ------------------------------------------------------------------------
\* strings, strings.ToLower, strconv.Atoi
\* ------------------------------------------------------------------------
Upper == <<"A","B","C","D","E","F","G","H","I","J","K","L","M",
           "N","O","P","Q","R","S","T","U","V","W","X","Y","Z">>
Lower == <<"a","b","c","d","e","f","g","h","i","j","k","l","m",
           "n","o","p","q","r","s","t","u","v","w","x","y","z">>

ToLowerChar(c) ==
    IF \E i \in 1..Len(Upper) : Upper[i] = c
    THEN Lower[CHOOSE i \in 1..Len(Upper) : Upper[i] = c]
    ELSE c

\* strings.ToLower
ToLower(s) == [i \in 1..Len(s) |-> ToLowerChar(s[i])]

Digits == <<"0","1","2","3","4","5","6","7","8","9">>

IsDigit(c) == \E i \in 1..Len(Digits) : Digits[i] = c

DigitVal(c) == (CHOOSE i \in 1..Len(Digits) : Digits[i] = c) - 1

RECURSIVE DigitsVal(_)
DigitsVal(s) ==
    IF s = <<>> THEN 0
    ELSE 10 * DigitsVal(SubSeq(s, 1, Len(s) - 1)) + DigitVal(s[Len(s)])

\* A Go error value: nil, or an error carrying a text.  A text is the format
\* string and the string formatted into it by %v (<<>> when there is none),
\* so errors.New("") is ErrorOf(Text("", <<>>)): an error, with an empty text.
NoError == <<>>
Text(msg, arg) == [msg |-> msg, arg |-> arg]
ErrorOf(text) == <<text>>

\* strconv.Atoi: an optional sign, then one or more decimal digits; anything
\* else is a syntax error.  (The strings of this model are too short to
\* leave the range of int.)
Atoi(s) ==
    LET signed == s # <<>> /\ s[1] \in {"+", "-"}
        body   == IF signed THEN Tail(s) ELSE s
    IN  IF body = <<>> \/ \E i \in 1..Len(body) : ~IsDigit(body[i])
        THEN [ok |-> FALSE, val |-> 0,
              err |-> ErrorOf(Text("strconv.Atoi: parsing ", s))]
        ELSE [ok |-> TRUE,
              val |-> IF signed /\ s[1] = "-" THEN 0 - DigitsVal(body)
                      ELSE DigitsVal(body),
              err |-> NoError]

\* intToPtr / a nil pointer
NilPtr == <<>>
intToPtr(i) == <<i>>

\* ------------------------------------------------------------------------
\* the level table
\* ------------------------------------------------------------------------
h264Levels ==
    << <<"1">>, <<"1","b">>, <<"1",".","1">>, <<"1",".","2">>, <<"1",".","3">>,
       <<"2">>, <<"2",".","1">>, <<"2",".","2">>,
       <<"3">>, <<"3",".","1">>, <<"3",".","2">>,
       <<"4">>, <<"4",".","1">>, <<"4",".","2">>,
       <<"5">>, <<"5",".","1">>, <<"5",".","2">> >>

\* ------------------------------------------------------------------------
\* createVideoPreset: the translation of a preset into an H264 codec
\* configuration.  The result is the pair the Go function returns:
\* cfg is the *H264CodecConfiguration (NilPtr on every error return) and
\* err the error.  CustomData, a Go map, is a set of [key, val] entries.
\* ------------------------------------------------------------------------
VideoOk(cfg) == [cfg |-> <<cfg>>, err |-> NoError]
VideoErr(e) == [cfg |-> NilPtr, err |-> e]

ProfileOf(profile) ==
    CASE profile = <<"h","i","g","h">> -> <<"HIGH">>
      [] profile = <<"m","a","i","n">> -> <<"MAIN">>
      [] profile = <<"b","a","s","e","l","i","n","e">> -> <<"BASELINE">>
      [] profile = <<>> -> <<"MAIN">>
      [] OTHER -> <<>>

\* LevelOf comparing only as much of the level string as the entry is long:
\* the first entry the level string begins with
LevelOfPrefix(level) ==
    IF \E i \in 1..Len(h264Levels) :
          /\ Len(h264Levels[i]) <= Len(level)
          /\ SubSeq(level, 1, Len(h264Levels[i])) = h264Levels[i]
    THEN <<h264Levels[CHOOSE i \in 1..Len(h264Levels) :
                        /\ Len(h264Levels[i]) <= Len(level)
                        /\ SubSeq(level, 1, Len(h264Levels[i])) = h264Levels[i]
                        /\ \A j \in 1..(i - 1) :
                              \/ Len(h264Levels[j]) > Len(level)
                              \/ SubSeq(level, 1, Len(h264Levels[j])) # h264Levels[j]]>>
    ELSE <<>>

\* the loop over h264Levels: the first entry equal to the level string
LevelOf(level) ==
    IF \E i \in 1..Len(h264Levels) : h264Levels[i] = level
    THEN <<h264Levels[CHOOSE i \in 1..Len(h264Levels) :
                        /\ h264Levels[i] = level
                        /\ \A j \in 1..(i - 1) : h264Levels[j] # level]>>
    ELSE <<>>

\* OptField without the test for the empty string: parsed whatever it holds
OptFieldParsed(s) ==
    LET a == Atoi(s)
    IN  IF a.ok THEN [ok |-> TRUE, ptr |-> intToPtr(a.val), err |-> NoError]
        ELSE [ok |-> FALSE, ptr |-> NilPtr, err |-> a.err]

\* an optional numeric field: parsed only when the string is not empty
OptField(s) ==
    IF s = <<>> THEN [ok |-> TRUE, ptr |-> NilPtr, err |-> NoError]
    ELSE LET a == Atoi(s)
         IN  IF a.ok THEN [ok |-> TRUE, ptr |-> intToPtr(a.val), err |-> NoError]
             ELSE [ok |-> FALSE, ptr |-> NilPtr, err |-> a.err]

createVideoPreset(preset) ==
    LET v       == preset.Video
        profile == ProfileOf(ToLower(v.Profile))
        level   == LevelOf(v.ProfileLevel)
        width   == OptField(v.Width)
        height  == OptField(v.Height)
        bitrate == Atoi(v.Bitrate)
        gop     == OptField(v.GopSize)
    IN  IF profile = <<>>
        THEN VideoErr(ErrorOf(Text("Unrecognized H264 Profile: ", v.Profile)))
        ELSE IF level = <<>>
        THEN VideoErr(ErrorOf(Text("Unrecognized H264 Level: ", v.ProfileLevel)))
        ELSE IF ~width.ok THEN VideoErr(width.err)
        ELSE IF ~height.ok THEN VideoErr(height.err)
        ELSE IF v.Bitrate = <<>>
        THEN VideoErr(ErrorOf(Text("Video Bitrate must be set", <<>>)))
        ELSE IF ~bitrate.ok THEN VideoErr(bitrate.err)
        ELSE IF ~gop.ok THEN VideoErr(gop.err)
        ELSE VideoOk([Profile |-> profile[1], Level |-> level[1],
                      Width |-> width.ptr, Height |-> height.ptr,
                      Bitrate |-> intToPtr(bitrate.val), MaxGOP |-> gop.ptr,
                      CustomData |-> {}])

\* ------------------------------------------------------------------------
\* strings.Split, strings.TrimSuffix, strings.TrimPrefix
\* ------------------------------------------------------------------------
HasPrefix(s, prefix) ==
    Len(prefix) <= Len(s) /\ SubSeq(s, 1, Len(prefix)) = prefix

HasSuffix(s, suffix) ==
    Len(suffix) <= Len(s) /\ SubSeq(s, Len(s) - Len(suffix) + 1, Len(s)) = suffix

TrimPrefix(s, prefix) ==
    IF HasPrefix(s, prefix) THEN SubSeq(s, Len(prefix) + 1, Len(s)) ELSE s

TrimSuffix(s, suffix) ==
    IF HasSuffix(s, suffix) THEN SubSeq(s, 1, Len(s) - Len(suffix)) ELSE s

\* strings.Index / strings.LastIndex of a one-character separator, counted
\* from 1; 0 when s does not hold it
Index(s, c) ==
    IF \E i \in 1..Len(s) : s[i] = c
    THEN CHOOSE i \in 1..Len(s) : s[i] = c /\ \A j \in 1..(i - 1) : s[j] # c
    ELSE 0

LastIndex(s, c) ==
    IF \E i \in 1..Len(s) : s[i] = c
    THEN CHOOSE i \in 1..Len(s) : s[i] = c /\ \A j \in (i + 1)..Len(s) : s[j] # c
    ELSE 0

\* strings.Split(s, sep) for a one-character separator
RECURSIVE Split(_, _)
Split(s, c) ==
    IF Index(s, c) = 0 THEN <<s>>
    ELSE <<SubSeq(s, 1, Index(s, c) - 1)>> \o Split(SubSeq(s, Index(s, c) + 1, Len(s)), c)

\* ------------------------------------------------------------------------
\* url.Parse, as far as parseS3URL depends on it: the host and the path of
\* the parsed URL, or an error
\* ------------------------------------------------------------------------
\* the printable characters, in the order of their codes 32..126 (the grave
\* accent, code 96, is written by its code)
Ascii ==
    << " ", "!", "\"", "#", "$", "%", "&", "'", "(", ")", "*", "+",
       ",", "-", ".", "/", "0", "1", "2", "3", "4", "5", "6", "7",
       "8", "9", ":", ";", "<", "=", ">", "?", "@", "A", "B", "C",
       "D", "E", "F", "G", "H", "I", "J", "K", "L", "M", "N", "O",
       "P", "Q", "R", "S", "T", "U", "V", "W", "X", "Y", "Z", "[",
       "\\", "]", "^", "_", "\\x96", "a", "b", "c", "d", "e", "f", "g",
       "h", "i", "j", "k", "l", "m", "n", "o", "p", "q", "r", "s",
       "t", "u", "v", "w", "x", "y", "z", "{", "|", "}", "~" >>

IsLetter(c) == \E i \in 1..Len(Upper) : Upper[i] = c \/ Lower[i] = c

HexDigits == <<"0","1","2","3","4","5","6","7","8","9","a","b","c","d","e","f">>

IsHex(c) == \E i \in 1..Len(HexDigits) : HexDigits[i] = ToLowerChar(c)

HexVal(c) == (CHOOSE i \in 1..Len(HexDigits) : HexDigits[i] = ToLowerChar(c)) - 1

\* the character a decoded byte stands for
ByteChar(n) == IF n \in 32..126 THEN Ascii[n - 31] ELSE "\\x" \o ToString(n)

\* every "%" of s begins an escape of two hexadecimal digits
EscapesOk(s) ==
    \A i \in 1..Len(s) :
        s[i] = "%" => (i + 2 <= Len(s) /\ IsHex(s[i + 1]) /\ IsHex(s[i + 2]))

\* unescape of a string whose escapes are well formed
RECURSIVE Unescape(_)
Unescape(s) ==
    IF s = <<>> THEN <<>>
    ELSE IF s[1] = "%"
    THEN <<ByteChar(16 * HexVal(s[2]) + HexVal(s[3]))>> \o Unescape(SubSeq(s, 4, Len(s)))
    ELSE <<s[1]>> \o Unescape(Tail(s))

UrlOk(host, path) == [ok |-> TRUE, Host |-> host, Path |-> path, err |-> NoError]

\* url.Parse wraps what went wrong in a url.Error that cites the input
UrlErr(why, input) ==
    [ok |-> FALSE, Host |-> <<>>, Path |-> <<>>,
     err |-> ErrorOf(Text("parse: " \o why, input))]

\* getScheme: letters, then letters, digits, "+", "-" and "." up to a ":"
SchemeEnd(s) ==
    IF s = <<>> \/ ~(IsLetter(s[1]) \/ s[1] = ":") THEN 0
    ELSE LET stops == {i \in 1..Len(s) :
                          ~(IsLetter(s[i]) \/ IsDigit(s[i]) \/ s[i] \in {"+", "-", "."})}
         IN  IF stops = {} THEN 0
             ELSE LET k == CHOOSE i \in stops : \A j \in stops : i <= j
                  IN  IF s[k] = ":" THEN k ELSE 0

\* the characters a host may hold unescaped
HostChar(c) ==
    \/ IsLetter(c) \/ IsDigit(c)
    \/ c \in {"-", "_", ".", "~", "!", "$", "&", "'", "(", ")", "*", "+", ",",
              ";", "=", ":", "[", "]", "<", ">", "\""}

\* the characters a userinfo may hold
UserinfoChar(c) ==
    \/ IsLetter(c) \/ IsDigit(c)
    \/ c \in {"-", ".", "_", ":", "~", "!", "$", "&", "'", "(", ")", "*", "+",
              ",", ";", "=", "%", "@"}

\* validOptionalPort: nothing, or ":" and digits
ValidOptionalPort(port) ==
    port = <<>> \/ (port[1] = ":" /\ \A i \in 2..Len(port) : IsDigit(port[i]))

\* parseAuthority / parseHost (hosts in brackets are left out): "" when the
\* authority is well formed, else what is wrong with it
AuthorityFault(authority) ==
    LET at   == LastIndex(authority, "@")
        host == SubSeq(authority, at + 1, Len(authority))
        user == SubSeq(authority, 1, at - 1)
        colon == LastIndex(host, ":")
    IN  IF at > 0 /\ \E i \in 1..Len(user) : ~UserinfoChar(user[i])
        THEN "net/url: invalid userinfo"
        ELSE IF colon > 0 /\ ~ValidOptionalPort(SubSeq(host, colon, Len(host)))
        THEN "invalid port after host"
        ELSE IF ~EscapesOk(host)
                \/ \E i \in 1..Len(host) :
                      /\ host[i] = "%"
                      /\ HexVal(host[i + 1]) < 8
                      /\ SubSeq(host, i, i + 2) # <<"%", "2", "5">>
        THEN "invalid URL escape"
        ELSE IF \E i \in 1..Len(host) : host[i] # "%" /\ ~HostChar(host[i])
        THEN "invalid character in host name"
        ELSE ""

HostOf(authority) ==
    Unescape(SubSeq(authority, LastIndex(authority, "@") + 1, Len(authority)))

Parse(input) ==
    LET hash     == Index(input, "#")
        noFrag   == IF hash = 0 THEN input ELSE SubSeq(input, 1, hash - 1)
        fragment == IF hash = 0 THEN <<>> ELSE SubSeq(input, hash + 1, Len(input))
        colon    == SchemeEnd(noFrag)
        scheme   == SubSeq(noFrag, 1, colon - 1)
        afterScheme == SubSeq(noFrag, colon + 1, Len(noFrag))
        mark     == Index(afterScheme, "?")
        rest     == IF mark = 0 THEN afterScheme ELSE SubSeq(afterScheme, 1, mark - 1)
        hasAuthority ==
            /\ HasPrefix(rest, <<"/", "/">>)
            /\ scheme # <<>> \/ ~HasPrefix(rest, <<"/", "/", "/">>)
        afterSlashes == SubSeq(rest, 3, Len(rest))
        slash     == Index(afterSlashes, "/")
        authority == IF slash = 0 THEN afterSlashes
                     ELSE SubSeq(afterSlashes, 1, slash - 1)
        path      == IF ~hasAuthority THEN rest
                     ELSE IF slash = 0 THEN <<>>
                     ELSE SubSeq(afterSlashes, slash, Len(afterSlashes))
    IN  IF noFrag = <<"*">> /\ EscapesOk(fragment) THEN UrlOk(<<>>, <<"*">>)
        ELSE IF noFrag # <<>> /\ noFrag[1] = ":"
        THEN UrlErr("missing protocol scheme", input)
        ELSE IF ~HasPrefix(rest, <<"/">>) /\ scheme # <<>>
        THEN IF EscapesOk(fragment) THEN UrlOk(<<>>, <<>>)      \* an opaque URL
             ELSE UrlErr("invalid URL escape", input)
        ELSE IF /\ ~HasPrefix(rest, <<"/">>)
                /\ Index(Split(rest, "/")[1], ":") # 0
        THEN UrlErr("first path segment in URL cannot contain colon", input)
        ELSE IF hasAuthority /\ AuthorityFault(authority) # ""
        THEN UrlErr(AuthorityFault(authority), input)
        ELSE IF ~EscapesOk(path) \/ ~EscapesOk(fragment)
        THEN UrlErr("invalid URL escape", input)
        ELSE UrlOk(IF hasAuthority THEN HostOf(authority) ELSE <<>>, Unescape(path))

\* ------------------------------------------------------------------------
\* parseS3URL and the table of the hosts it knows the region of
\* ------------------------------------------------------------------------
\* the keys all end in ".amazonaws.com"
amazonaws == <<".","a","m","a","z","o","n","a","w","s",".","c","o","m">>

\* the keys of the dual-stack endpoints begin with "s3.dualstack."
dualstack == <<"s","3",".","d","u","a","l","s","t","a","c","k",".">>

s3UrlCloudRegionMap ==
    {
       \* s3.amazonaws.com
       << <<"s","3">> \o amazonaws,
          "AWSCloudRegionUSEast1" >>,
       \* s3-external-1.amazonaws.com
       << <<"s","3","-","e","x","t","e","r","n","a","l","-","1">> \o amazonaws,
          "AWSCloudRegionUSEast1" >>,
       \* s3.dualstack.us-east-1.amazonaws.com
       << dualstack \o <<"u","s","-","e","a","s","t","-","1">> \o amazonaws,
          "AWSCloudRegionUSEast1" >>,
       \* s3-us-west-1.amazonaws.com
       << <<"s","3","-","u","s","-","w","e","s","t","-","1">> \o amazonaws,
          "AWSCloudRegionUSWest1" >>,
       \* s3.dualstack.us-west-1.amazonaws.com
       << dualstack \o <<"u","s","-","w","e","s","t","-","1">> \o amazonaws,
          "AWSCloudRegionUSWest1" >>,
       \* s3-us-west-2.amazonaws.com
       << <<"s","3","-","u","s","-","w","e","s","t","-","2">> \o amazonaws,
          "AWSCloudRegionUSWest2" >>,
       \* s3.dualstack.us-west-2.amazonaws.com
       << dualstack \o <<"u","s","-","w","e","s","t","-","2">> \o amazonaws,
          "AWSCloudRegionUSWest2" >>,
       \* s3.ap-south-1.amazonaws.com
       << <<"s","3",".","a","p","-","s","o","u","t","h","-","1">> \o amazonaws,
          "AWSCloudRegionAPSouth1" >>,
       \* s3-ap-south-1.amazonaws.com
       << <<"s","3","-","a","p","-","s","o","u","t","h","-","1">> \o amazonaws,
          "AWSCloudRegionAPSouth1" >>,
       \* s3.dualstack.ap-south-1.amazonaws.com
       << dualstack \o <<"a","p","-","s","o","u","t","h","-","1">> \o amazonaws,
          "AWSCloudRegionAPSouth1" >>,
       \* s3.ap-northeast-2.amazonaws.com
       << <<"s","3",".","a","p","-","n","o","r","t","h","e","a","s","t","-","2">> \o amazonaws,
          "AWSCloudRegionAPNortheast2" >>,
       \* s3-ap-northeast-2.amazonaws.com
       << <<"s","3","-","a","p","-","n","o","r","t","h","e","a","s","t","-","2">> \o amazonaws,
          "AWSCloudRegionAPNortheast2" >>,
       \* s3.dualstack.ap-northeast-2.amazonaws.com
       << dualstack \o <<"a","p","-","n","o","r","t","h","e","a","s","t","-","2">> \o amazonaws,
          "AWSCloudRegionAPNortheast2" >>,
       \* s3-ap-southeast-1.amazonaws.com
       << <<"s","3","-","a","p","-","s","o","u","t","h","e","a","s","t","-","1">> \o amazonaws,
          "AWSCloudRegionAPSoutheast1" >>,
       \* s3.dualstack.ap-southeast-1.amazonaws.com
       << dualstack \o <<"a","p","-","s","o","u","t","h","e","a","s","t","-","1">> \o amazonaws,
          "AWSCloudRegionAPSoutheast1" >>,
       \* s3-ap-southeast-2.amazonaws.com
       << <<"s","3","-","a","p","-","s","o","u","t","h","e","a","s","t","-","2">> \o amazonaws,
          "AWSCloudRegionAPSoutheast2" >>,
       \* s3.dualstack.ap-southeast-2.amazonaws.com
       << dualstack \o <<"a","p","-","s","o","u","t","h","e","a","s","t","-","2">> \o amazonaws,
          "AWSCloudRegionAPSoutheast2" >>,
       \* s3-ap-northeast-1.amazonaws.com
       << <<"s","3","-","a","p","-","n","o","r","t","h","e","a","s","t","-","1">> \o amazonaws,
          "AWSCloudRegionAPNortheast1" >>,
       \* s3.dualstack.ap-northeast-1.amazonaws.com
       << dualstack \o <<"a","p","-","n","o","r","t","h","e","a","s","t","-","1">> \o amazonaws,
          "AWSCloudRegionAPNortheast1" >>,
       \* s3.eu-central-1.amazonaws.com
       << <<"s","3",".","e","u","-","c","e","n","t","r","a","l","-","1">> \o amazonaws,
          "AWSCloudRegionEUCentral1" >>,
       \* s3-eu-central-1.amazonaws.com
       << <<"s","3","-","e","u","-","c","e","n","t","r","a","l","-","1">> \o amazonaws,
          "AWSCloudRegionEUCentral1" >>,
       \* s3.dualstack.eu-central-1.amazonaws.com
       << dualstack \o <<"e","u","-","c","e","n","t","r","a","l","-","1">> \o amazonaws,
          "AWSCloudRegionEUCentral1" >>,
       \* s3-eu-west-1.amazonaws.com
       << <<"s","3","-","e","u","-","w","e","s","t","-","1">> \o amazonaws,
          "AWSCloudRegionEUWest1" >>,
       \* s3.dualstack.eu-west-1.amazonaws.com
       << dualstack \o <<"e","u","-","w","e","s","t","-","1">> \o amazonaws,
          "AWSCloudRegionEUWest1" >>,
       \* s3-sa-east-1.amazonaws.com
       << <<"s","3","-","s","a","-","e","a","s","t","-","1">> \o amazonaws,
          "AWSCloudRegionSAEast1" >>,
       \* s3.dualstack.sa-east-1.amazonaws.com
       << dualstack \o <<"s","a","-","e","a","s","t","-","1">> \o amazonaws,
          "AWSCloudRegionSAEast1" >> }

\* Lookup that finds every host, those the table does not hold with the zero
\* region
LookupAny(host) ==
    IF \E e \in s3UrlCloudRegionMap : e[1] = host
    THEN [ok |-> TRUE, region |-> (CHOOSE e \in s3UrlCloudRegionMap : e[1] = host)[2]]
    ELSE [ok |-> TRUE, region |-> ""]

\* cloudRegion, ok := s3UrlCloudRegionMap[u.Host]
Lookup(host) ==
    IF \E e \in s3UrlCloudRegionMap : e[1] = host
    THEN [ok |-> TRUE, region |-> (CHOOSE e \in s3UrlCloudRegionMap : e[1] = host)[2]]
    ELSE [ok |-> FALSE, region |-> ""]

Location(fileName, bucketName, cloudRegion, err) ==
    [fileName |-> fileName, bucketName |-> bucketName, cloudRegion |-> cloudRegion,
     err |-> err]

\* BucketName that leaves the slash at the front of the path in place
BucketNameUntrimmed(path, fileName) == TrimSuffix(path, <<"/">> \o fileName)

\* the two assignments to bucketName
BucketName(path, fileName) ==
    TrimPrefix(TrimSuffix(path, <<"/">> \o fileName), <<"/">>)

parseS3URL(input) ==
    LET u          == Parse(input)
        s          == Split(u.Path, "/")
        fileName   == s[Len(s)]
        bucketName == BucketName(u.Path, fileName)
        found      == Lookup(u.Host)
    IN  IF ~u.ok THEN Location(<<>>, <<>>, "", u.err)
        ELSE IF ~found.ok
        THEN Location(<<>>, <<>>, "",
                      ErrorOf(Text("Unable to determine AWS Region from Host: ", u.Host)))
        ELSE Location(fileName, bucketName, found.region, NoError)

\* ------------------------------------------------------------------------
\* the presets the callers pass (db.Preset)
\* ------------------------------------------------------------------------
MkPreset(acodec, abitrate, vcodec, profile, level, width, height, vbitrate, gop) ==
    [Audio |-> [Codec |-> acodec, Bitrate |-> abitrate],
     Video |-> [Codec |-> vcodec, Profile |-> profile, ProfileLevel |-> level,
                Width |-> width, Height |-> height, Bitrate |-> vbitrate,
                GopSize |-> gop]]

aac == <<"a","a","c">>
h264 == <<"h","2","6","4">>
main == <<"m","a","i","n">>

Presets ==
    { \* valid, audio bitrate 64, codecs and profile in mixed case
      MkPreset(<<"A","A","C">>, <<"6","4">>, <<"H","2","6","4">>, <<"H","i","g","h">>,
               <<"4">>, <<"6","4","0">>, <<"3","6","0">>, <<"8">>, <<"3","0">>),
      \* unsupported audio codec
      MkPreset(<<"m","p","3">>, <<"6","4">>, h264, main, <<"3">>, <<>>, <<>>, <<"9">>, <<>>),
      \* unsupported video codec
      MkPreset(aac, <<"6","4">>, <<"v","p","8">>, main, <<"3">>, <<>>, <<>>, <<"9">>, <<>>),
      \* unparsable audio bitrate
      MkPreset(aac, <<"6","k">>, h264, main, <<"3">>, <<>>, <<>>, <<"9">>, <<>>),
      \* unrecognized profile
      MkPreset(aac, <<"6","4">>, h264, <<"h","i">>, <<"3">>, <<>>, <<>>, <<"9">>, <<>>) }

\* ------------------------------------------------------------------------
\* state
\* ------------------------------------------------------------------------
Procs == {1, 2}

VARIABLES
    audios,         \* remote AAC configurations, in the order the service lists
                    \* them: that of their creation
    videos,         \* remote H264 configurations
    nextID,         \* the identifier the remote service assigns next
    job,            \* per caller: the remote phases of the job JobStatus asks about
    pc,             \* per caller: "idle", or the remote call it makes next
    op,             \* per caller: the operation it runs, or ran last
    preset,         \* per caller: CreatePreset's argument
    handle,         \* per caller: presetID of GetPreset / DeletePreset
    totalCount,     \* per caller: CreatePreset's totalCount
    items,          \* per caller: CreatePreset's audioConfigs
    audioConfigID,  \* per caller: CreatePreset's audioConfigID, GetPreset's s
    h264Config,     \* per caller: GetPreset's h264Config
    result,         \* per caller: what the operation returned
    log,            \* per caller: the remote calls of the operation, in order
    ops,            \* operations started so far
    solo,           \* per caller: no other caller has acted since its operation began
    prev,           \* when the last operation was a CreatePreset that ran alone
                    \* and returned a handle: its preset, audio identifier, handle
    base,           \* per caller: prev when its operation began
    deletedRefs,    \* audio identifiers referenced by the presets deleted so far
    madeFrom,       \* the H264 configurations CreatePreset has created, in order:
                    \* the identifier, and the audio bitrate of the preset
    call            \* a call of a function that makes no remote call: the
                    \* function, its argument and, once done, what it returned

remote == <<audios, videos, nextID>>
vars == <<audios, videos, nextID, job, pc, op, preset, handle, totalCount, items,
          audioConfigID, h264Config, result, log, ops, solo, prev, base, deletedRefs,
          madeFrom, call>>

SamplingRate == 48000

AudioConfig(id, bitrate) == [ID |-> id, Bitrate |-> bitrate, SamplingRate |-> SamplingRate]

StringValue(s) == [type |-> "string", str |-> s]
NumberValue(n) == [type |-> "number", str |-> n]

\* the H264 configurations the remote service starts with, after the n audio
\* configurations: two of other clients of the service (one without an
\* "audio" entry in its custom data, one whose entry is not a string) and,
\* when there is an audio configuration, a preset an earlier CreatePreset
\* left, referring to the last one listed
InitVideos(n) ==
    { [ID |-> n + 1, Profile |-> "MAIN", Level |-> <<"3">>, Width |-> NilPtr,
       Height |-> NilPtr, Bitrate |-> intToPtr(5), MaxGOP |-> NilPtr,
       CustomData |-> {}],
      [ID |-> n + 2, Profile |-> "HIGH", Level |-> <<"4">>, Width |-> NilPtr,
       Height |-> NilPtr, Bitrate |-> intToPtr(6), MaxGOP |-> NilPtr,
       CustomData |-> {[key |-> "audio", val |-> NumberValue(1)]}] }
    \cup
    { [ID |-> n + 3, Profile |-> "MAIN", Level |-> <<"3",".","1">>, Width |-> NilPtr,
       Height |-> NilPtr, Bitrate |-> intToPtr(9), MaxGOP |-> NilPtr,
       CustomData |-> {[key |-> "audio", val |-> StringValue(i)]}] : i \in {n} \ {0} }

\* what CreatePreset created before: the last of InitVideos, from a preset
\* with the bitrate of the audio configuration it refers to
InitMade(bs) ==
    IF bs = <<>> THEN <<>>
    ELSE <<[video |-> Len(bs) + 3, bitrate |-> bs[Len(bs)]]>>

\* the audio bitrates of the catalogs the remote service may start with
InitCatalogs == {<<>>, <<96>>, <<96, 64>>}

NoJob == [encode |-> "none", manifest |-> "none"]

NoResult == [kind |-> "none", val |-> <<>>, err |-> NoError]

NoCall == [fn |-> "none", arg |-> <<>>, ret |-> <<>>, done |-> FALSE]

Init ==
    /\ \E bs \in InitCatalogs :
          /\ audios = [i \in 1..Len(bs) |-> AudioConfig(i, bs[i])]
          /\ videos = InitVideos(Len(bs))
          /\ nextID = Len(bs) + 4
          /\ madeFrom = InitMade(bs)
    /\ job = [p \in Procs |-> NoJob]
    /\ pc = [p \in Procs |-> "idle"]
    /\ op = [p \in Procs |-> "none"]
    /\ preset = [p \in Procs |-> <<>>]
    /\ handle = [p \in Procs |-> 0]
    /\ totalCount = [p \in Procs |-> 0]
    /\ items = [p \in Procs |-> <<>>]
    /\ audioConfigID = [p \in Procs |-> 0]
    /\ h264Config = [p \in Procs |-> <<>>]
    /\ result = [p \in Procs |-> NoResult]
    /\ log = [p \in Procs |-> <<>>]
    /\ ops = 0
    /\ solo = [p \in Procs |-> FALSE]
    /\ prev = <<>>
    /\ base = [p \in Procs |-> <<>>]
    /\ deletedRefs = {}
    /\ call = NoCall

\* ------------------------------------------------------------------------
\* the remote service, as the provider's calls see it
\* ------------------------------------------------------------------------
\* how a remote call ends: a response with status SUCCESS, a response with
\* status ERROR, or a transport error (err != nil)
Outcomes == {"ok", "ERROR", "transport"}

\* the error the client library hands back when the transport fails
TransportError(site) == ErrorOf(Text("transport failure", <<site>>))

\* the message the remote service puts in a response with status ERROR
ServiceMessage(site) == Text("service reported an error", <<site>>)

Min(a, b) == IF a < b THEN a ELSE b

\* aac.List(offset, limit): at most limit entries from offset on.  What the
\* service answers to a limit below 1 is its own business: any page.
ListItems(offset, limit) ==
    IF limit >= 1
    THEN {SubSeq(audios, offset + 1, Min(Len(audios), offset + limit))}
    ELSE {SubSeq(audios, 1, k) : k \in 0..Len(audios)}

HasVideo(id) == \E v \in videos : v.ID = id
VideoOf(id) == CHOOSE v \in videos : v.ID = id
HasAudio(id) == \E i \in 1..Len(audios) : audios[i].ID = id
AudioOf(id) == audios[CHOOSE i \in 1..Len(audios) : audios[i].ID = id]

\* ------------------------------------------------------------------------
\* bookkeeping shared by the steps
\* ------------------------------------------------------------------------
\* f with caller p's entry set to v.  What an operation left behind (its
\* result, its log, its locals) is looked at in the state it ends in: with
\* the next step of any caller the entries of the idle callers go back to d.
Set(f, d, p, v) ==
    [q \in Procs |-> IF q = p THEN v
                     ELSE IF pc[q] = "idle" THEN d
                     ELSE f[q]]

\* caller p's entry of f stays as it is
Keep(f, d, p) == f' = Set(f, d, p, f[p])

KeepLocals(p) ==
    /\ Keep(preset, <<>>, p)
    /\ Keep(handle, 0, p)
    /\ Keep(totalCount, 0, p)
    /\ Keep(items, <<>>, p)
    /\ Keep(audioConfigID, 0, p)
    /\ Keep(h264Config, <<>>, p)
    /\ Keep(job, NoJob, p)

Alone(p) == \A q \in Procs \ {p} : pc[q] = "idle"

\* a remote call in the log: where it is made, its argument, how it ended,
\* and the identifier the service would have assigned next when it was made
Entry(site, o, arg) == [site |-> site, outcome |-> o, arg |-> arg, next |-> nextID]

\* caller p begins an operation
Start(p, name) ==
    /\ pc[p] = "idle"
    /\ ops < MaxOps
    /\ ops = 0 => p = 1      \* the callers are alike: let caller 1 be the first
    /\ ops' = ops + 1
    /\ op' = Set(op, "none", p, name)
    /\ base' = Set(base, <<>>, p, IF Alone(p) THEN prev ELSE <<>>)
    /\ solo' = [q \in Procs |-> q = p /\ Alone(p)]
    /\ UNCHANGED <<call, madeFrom>>

\* caller p goes on with the operation it is in
Continue(p) ==
    /\ UNCHANGED ops
    /\ Keep(op, "none", p)
    /\ Keep(base, <<>>, p)
    /\ solo' = [q \in Procs |-> q = p /\ solo[p]]
    /\ UNCHANGED call

Return(p, val, err) ==
    /\ pc' = [pc EXCEPT ![p] = "idle"]
    /\ result' = Set(result, NoResult, p, [kind |-> "return", val |-> val, err |-> err])

\* the operation aborts: a run-time panic unwinds into the caller
Panic(p) ==
    /\ pc' = [pc EXCEPT ![p] = "idle"]
    /\ result' = Set(result, NoResult, p, [kind |-> "panic", val |-> <<>>, err |-> NoError])

Goto(p, site) ==
    /\ pc' = [pc EXCEPT ![p] = site]
    /\ result' = Set(result, NoResult, p, NoResult)

\* CallError with the transport error reinterpreted like a status ERROR
CallErrorOpaque(site, o) == ErrorOf(Text("", <<>>))

\* the error returned for a remote call that did not end well:
\* "if err != nil { return err }; if Status == "ERROR" { return errors.New("") }"
CallError(site, o) ==
    IF o = "transport" THEN TransportError(site) ELSE ErrorOf(Text("", <<>>))

\* ------------------------------------------------------------------------
\* CreatePreset
\* ------------------------------------------------------------------------
\* UnsupportedCodec without the check of the video codec
UnsupportedCodecAudioOnly(pr) ==
    IF ToLower(pr.Audio.Codec) # <<"a","a","c">>
    THEN ErrorOf(Text("Unsupported Audio codec: ", pr.Audio.Codec))
    ELSE NoError

\* UnsupportedCodec without either check
UnsupportedCodecNone(pr) == NoError

\* the two codec checks CreatePreset begins with
UnsupportedCodec(pr) ==
    IF ToLower(pr.Audio.Codec) # <<"a","a","c">>
    THEN ErrorOf(Text("Unsupported Audio codec: ", pr.Audio.Codec))
    ELSE IF ToLower(pr.Video.Codec) # <<"h","2","6","4">>
    THEN ErrorOf(Text("Unsupported Video codec: ", pr.Video.Codec))
    ELSE NoError

\* bitrate, err := strconv.Atoi(preset.Audio.Bitrate)
AudioBitrate(pr) == Atoi(pr.Audio.Bitrate).val

\* the limit of the second aac.List call
SecondListLimit(total) == total - 1

\* ScanAudio without the comparison of the bitrates: the first one listed
ScanAudioFirst(listed, bitrate) ==
    IF listed # <<>> THEN listed[1].ID ELSE 0

\* the scan of the listed configurations: the identifier of the first one
\* with the bitrate, "" when there is none
ScanAudio(listed, bitrate) ==
    IF \E i \in 1..Len(listed) : listed[i].Bitrate = bitrate
    THEN listed[CHOOSE i \in 1..Len(listed) :
                  /\ listed[i].Bitrate = bitrate
                  /\ \A j \in 1..(i - 1) : listed[j].Bitrate # bitrate].ID
    ELSE 0

\* the codec checks and the first call, aac.List(0, 1)
CreatePreset(p) ==
    \E pr \in Presets, o \in Outcomes :
        /\ Start(p, "CreatePreset")
        /\ preset' = Set(preset, <<>>, p, pr)
        /\ handle' = Set(handle, 0, p, 0)
        /\ items' = Set(items, <<>>, p, <<>>)
        /\ audioConfigID' = Set(audioConfigID, 0, p, 0)
        /\ h264Config' = Set(h264Config, <<>>, p, <<>>)
        /\ job' = Set(job, NoJob, p, NoJob)
        /\ prev' = <<>>
        /\ UNCHANGED <<remote, deletedRefs>>
        /\ IF UnsupportedCodec(pr) # NoError
           THEN /\ o = "ok"
                /\ Return(p, <<0>>, UnsupportedCodec(pr))
                /\ log' = Set(log, <<>>, p, <<>>)
                /\ totalCount' = Set(totalCount, 0, p, 0)
           ELSE /\ log' = Set(log, <<>>, p, <<Entry("list1", o, 1)>>)
                /\ IF o = "ok"
                   THEN /\ Goto(p, "list2")
                        /\ totalCount' = Set(totalCount, 0, p, Len(audios))
                   ELSE /\ Return(p, <<0>>, CallError("list1", o))
                        /\ totalCount' = Set(totalCount, 0, p, 0)

\* the second call, aac.List(0, totalCount-1), the parse of the audio
\* bitrate and the scan
CreateList2(p) ==
    /\ pc[p] = "list2"
    /\ \E o \in Outcomes, listed \in ListItems(0, SecondListLimit(totalCount[p])) :
        /\ Continue(p)
        /\ log' = Set(log, <<>>, p,
                       Append(log[p], Entry("list2", o, SecondListLimit(totalCount[p]))))
        /\ UNCHANGED <<remote, deletedRefs, prev, madeFrom>>
        /\ Keep(preset, <<>>, p)
        /\ Keep(handle, 0, p)
        /\ Keep(totalCount, 0, p)
        /\ Keep(h264Config, <<>>, p)
        /\ Keep(job, NoJob, p)
        /\ LET bitrate == Atoi(preset[p].Audio.Bitrate)
           IN  IF o # "ok"
               THEN /\ Return(p, <<0>>, CallError("list2", o))
                    /\ Keep(items, <<>>, p)
                    /\ Keep(audioConfigID, 0, p)
               ELSE /\ items' = Set(items, <<>>, p, listed)
                    /\ IF ~bitrate.ok
                       THEN /\ Return(p, <<0>>, bitrate.err)
                            /\ Keep(audioConfigID, 0, p)
                       ELSE /\ audioConfigID' = Set(audioConfigID, 0, p,
                                                    ScanAudio(listed, bitrate.val))
                            /\ Goto(p, IF ScanAudio(listed, bitrate.val) = 0
                                       THEN "acreate" ELSE "vcreate")

\* aac.Create, when the scan found nothing
CreateAudio(p) ==
    /\ pc[p] = "acreate"
    /\ \E o \in Outcomes :
        LET bitrate == Atoi(preset[p].Audio.Bitrate).val
        IN  /\ Continue(p)
            /\ log' = Set(log, <<>>, p, Append(log[p], Entry("acreate", o, bitrate)))
            /\ UNCHANGED <<videos, deletedRefs, prev, madeFrom>>
            /\ Keep(preset, <<>>, p)
            /\ Keep(handle, 0, p)
            /\ Keep(totalCount, 0, p)
            /\ Keep(items, <<>>, p)
            /\ Keep(h264Config, <<>>, p)
            /\ Keep(job, NoJob, p)
            /\ IF o = "ok"
               THEN /\ audios' = Append(audios, AudioConfig(nextID, bitrate))
                    /\ nextID' = nextID + 1
                    /\ audioConfigID' = Set(audioConfigID, 0, p, nextID)
                    /\ Goto(p, "vcreate")
               ELSE /\ Return(p, <<0>>, CallError("acreate", o))
                    /\ UNCHANGED <<audios, nextID>>
                    /\ Keep(audioConfigID, 0, p)

\* WithAudio that leaves the custom data as createVideoPreset made it
WithoutAudio(cfg, id) == cfg

\* the H264 configuration CreatePreset sends: createVideoPreset's, with the
\* audio identifier in its custom data
WithAudio(cfg, id) ==
    [cfg EXCEPT !.CustomData = {[key |-> "audio", val |-> StringValue(id)]}]

Stored(cfg, id) ==
    [ID |-> id, Profile |-> cfg.Profile, Level |-> cfg.Level, Width |-> cfg.Width,
     Height |-> cfg.Height, Bitrate |-> cfg.Bitrate, MaxGOP |-> cfg.MaxGOP,
     CustomData |-> cfg.CustomData]

\* CreateVideo that looks for an H264 configuration like the one it is about
\* to create, as CreatePreset does for the audio configuration, and returns
\* the identifier of one it finds without a create call
CreateVideoOnce(p) ==
    /\ pc[p] = "vcreate"
    /\ Continue(p)
    /\ UNCHANGED <<audios, deletedRefs>>
    /\ KeepLocals(p)
    /\ LET made == createVideoPreset(preset[p])
       IN  IF made.cfg = NilPtr
           THEN /\ Panic(p)
                /\ UNCHANGED <<videos, nextID, prev, madeFrom>>
                /\ Keep(log, <<>>, p)
           ELSE LET like == {v \in videos :
                                v = Stored(WithAudio(made.cfg[1], audioConfigID[p]), v.ID)}
                IN  IF like # {}
                    THEN /\ Return(p, <<(CHOOSE v \in like : TRUE).ID>>, NoError)
                         /\ Keep(log, <<>>, p)
                         /\ UNCHANGED <<videos, nextID, prev, madeFrom>>
                    ELSE \E o \in Outcomes :
                         /\ log' = Set(log, <<>>, p, Append(log[p], Entry("vcreate", o, 0)))
                         /\ IF o = "ok"
                            THEN /\ videos' = videos \cup
                                       {Stored(WithAudio(made.cfg[1], audioConfigID[p]),
                                               nextID)}
                                 /\ nextID' = nextID + 1
                                 /\ madeFrom' = Append(madeFrom,
                                                        [video |-> nextID,
                                                         bitrate |-> AudioBitrate(preset[p])])
                                 /\ Return(p, <<nextID>>, NoError)
                                 /\ prev' = IF solo[p]
                                            THEN <<[preset |-> preset[p],
                                                    audio |-> audioConfigID[p],
                                                    handle |-> nextID]>>
                                            ELSE <<>>
                            ELSE /\ Return(p, <<0>>, CallError("vcreate", o))
                                 /\ UNCHANGED <<videos, nextID, prev, madeFrom>>

\* createVideoPreset, the assignment to h264Config.CustomData (through a nil
\* pointer when createVideoPreset failed: its error is not looked at) and
\* h264.Create
CreateVideo(p) ==
    /\ pc[p] = "vcreate"
    /\ Continue(p)
    /\ UNCHANGED <<audios, deletedRefs>>
    /\ KeepLocals(p)
    /\ LET made == createVideoPreset(preset[p])
       IN  IF made.cfg = NilPtr
           THEN /\ Panic(p)
                /\ UNCHANGED <<videos, nextID, prev, madeFrom>>
                /\ Keep(log, <<>>, p)
           ELSE \E o \in Outcomes :
                /\ log' = Set(log, <<>>, p, Append(log[p], Entry("vcreate", o, 0)))
                /\ IF o = "ok"
                   THEN /\ videos' = videos \cup
                              {Stored(WithAudio(made.cfg[1], audioConfigID[p]), nextID)}
                        /\ nextID' = nextID + 1
                        /\ madeFrom' = Append(madeFrom,
                                               [video |-> nextID,
                                                bitrate |-> AudioBitrate(preset[p])])
                        /\ Return(p, <<nextID>>, NoError)
                        /\ prev' = IF solo[p]
                                   THEN <<[preset |-> preset[p],
                                           audio |-> audioConfigID[p],
                                           handle |-> nextID]>>
                                   ELSE <<>>
                   ELSE /\ Return(p, <<0>>, CallError("vcreate", o))
                        /\ UNCHANGED <<videos, nextID, prev, madeFrom>>

\* ------------------------------------------------------------------------
\* GetPreset
\* ------------------------------------------------------------------------
\* AudioRef without the type assertion: whatever the entry holds is the name
AudioRefUnchecked(customData) ==
    IF ~\E e \in customData : e.key = "audio"
    THEN [ok |-> FALSE, s |-> 0,
          err |-> ErrorOf(Text("No Audio configuration found for Video Preset", <<>>))]
    ELSE [ok |-> TRUE, s |-> (CHOOSE e \in customData : e.key = "audio").val.str,
          err |-> NoError]

\* i, ok := CustomData["audio"]; s, ok := i.(string)
AudioRef(customData) ==
    IF ~\E e \in customData : e.key = "audio"
    THEN [ok |-> FALSE, s |-> 0,
          err |-> ErrorOf(Text("No Audio configuration found for Video Preset", <<>>))]
    ELSE LET i == (CHOOSE e \in customData : e.key = "audio").val
         IN  IF i.type # "string"
             THEN [ok |-> FALSE, s |-> 0,
                   err |-> ErrorOf(Text("Audio Configuration somehow not a string", <<>>))]
             ELSE [ok |-> TRUE, s |-> i.str, err |-> NoError]

\* the value GetPreset returns next to its error once both retrievals succeeded
GetPresetError == ErrorOf(Text("Not implemented", <<>>))

\* the identifiers a caller may pass: those of the H264 configurations there
\* are, and one that names none
Handles == {v.ID : v \in videos} \cup {0}

\* h264.Retrieve and the custom-data checks
GetPreset(p) ==
    \E h \in Handles, o \in Outcomes :
        /\ Start(p, "GetPreset")
        /\ o = "ok" => HasVideo(h)
        /\ handle' = Set(handle, 0, p, h)
        /\ preset' = Set(preset, <<>>, p, <<>>)
        /\ totalCount' = Set(totalCount, 0, p, 0)
        /\ items' = Set(items, <<>>, p, <<>>)
        /\ job' = Set(job, NoJob, p, NoJob)
        /\ prev' = <<>>
        /\ log' = Set(log, <<>>, p, <<Entry("vget", o, h)>>)
        /\ UNCHANGED <<remote, deletedRefs>>
        /\ IF o # "ok"
           THEN /\ Return(p, <<>>, CallError("vget", o))
                /\ audioConfigID' = Set(audioConfigID, 0, p, 0)
                /\ h264Config' = Set(h264Config, <<>>, p, <<>>)
           ELSE LET ref == AudioRef(VideoOf(h).CustomData)
                IN  /\ h264Config' = Set(h264Config, <<>>, p, <<VideoOf(h)>>)
                    /\ audioConfigID' = Set(audioConfigID, 0, p, ref.s)
                    /\ IF ref.ok THEN Goto(p, "aget") ELSE Return(p, <<>>, ref.err)

\* aac.Retrieve and the joined result
GetAudio(p) ==
    /\ pc[p] = "aget"
    /\ \E o \in Outcomes :
        /\ o = "ok" => HasAudio(audioConfigID[p])
        /\ Continue(p)
        /\ log' = Set(log, <<>>, p, Append(log[p], Entry("aget", o, audioConfigID[p])))
        /\ UNCHANGED <<remote, deletedRefs, prev, madeFrom>>
        /\ KeepLocals(p)
        /\ IF o # "ok"
           THEN Return(p, <<>>, CallError("aget", o))
           ELSE Return(p, <<[Video |-> h264Config[p][1],
                             Audio |-> AudioOf(audioConfigID[p])]>>,
                       GetPresetError)

\* ------------------------------------------------------------------------
\* DeletePreset
\* ------------------------------------------------------------------------
\* the audio identifiers a video configuration's custom data names
RefsOf(v) == {e.val.str : e \in {x \in v.CustomData : x.key = "audio" /\ x.val.type = "string"}}

DeletePreset(p) ==
    \E h \in Handles, o \in Outcomes :
        /\ Start(p, "DeletePreset")
        /\ o = "ok" => HasVideo(h)
        /\ handle' = Set(handle, 0, p, h)
        /\ preset' = Set(preset, <<>>, p, <<>>)
        /\ totalCount' = Set(totalCount, 0, p, 0)
        /\ items' = Set(items, <<>>, p, <<>>)
        /\ audioConfigID' = Set(audioConfigID, 0, p, 0)
        /\ h264Config' = Set(h264Config, <<>>, p, <<>>)
        /\ job' = Set(job, NoJob, p, NoJob)
        /\ prev' = <<>>
        /\ log' = Set(log, <<>>, p, <<Entry("vdel", o, h)>>)
        /\ UNCHANGED <<audios, nextID>>
        /\ IF o = "ok"
           THEN /\ videos' = videos \ {VideoOf(h)}
                /\ deletedRefs' = deletedRefs \cup RefsOf(VideoOf(h))
                /\ Return(p, <<>>, NoError)
           ELSE /\ UNCHANGED <<videos, deletedRefs>>
                /\ Return(p, <<>>, CallError("vdel", o))

\* ------------------------------------------------------------------------
\* JobStatus, and the remote job it is asked about
\* ------------------------------------------------------------------------
\* the phases the remote service may report for a job: the manifest
\* generation starts when the transcoding is complete
JobPhases ==
    { [encode |-> "running", manifest |-> "pending"],
      [encode |-> "complete", manifest |-> "pending"],
      [encode |-> "complete", manifest |-> "complete"] }

\* JobStatus reporting the job finished as soon as its encode phase is
\* complete, without a look at the manifest phase
JobStatusEncodeOnly(j) ==
    IF j.encode = "complete"
    THEN [val |-> <<[Status |-> "finished"]>>, err |-> NoError]
    ELSE [val |-> <<[Status |-> "started"]>>, err |-> NoError]

\* what JobStatus returns for a job in remote phases j
JobStatusResult(j) == [val |-> NilPtr, err |-> ErrorOf(Text("Not implemented", <<>>))]

\* a poll of a job that the remote service has brought to phases j
JobStatus(p) ==
    \E j \in JobPhases :
        /\ Start(p, "JobStatus")
        /\ job' = Set(job, NoJob, p, j)
        /\ preset' = Set(preset, <<>>, p, <<>>)
        /\ handle' = Set(handle, 0, p, 0)
        /\ totalCount' = Set(totalCount, 0, p, 0)
        /\ items' = Set(items, <<>>, p, <<>>)
        /\ audioConfigID' = Set(audioConfigID, 0, p, 0)
        /\ h264Config' = Set(h264Config, <<>>, p, <<>>)
        /\ prev' = <<>>
        /\ log' = Set(log, <<>>, p, <<>>)
        /\ UNCHANGED <<remote, deletedRefs>>
        /\ Return(p, JobStatusResult(j).val, JobStatusResult(j).err)

\* ------------------------------------------------------------------------
\* the specification
\* ------------------------------------------------------------------------
Next ==
    \/ \E p \in Procs : CreatePreset(p)
    \/ \E p \in Procs : CreateList2(p)
    \/ \E p \in Procs : CreateAudio(p)
    \/ \E p \in Procs : CreateVideo(p)
    \/ \E p \in Procs : GetPreset(p)
    \/ \E p \in Procs : GetAudio(p)
    \/ \E p \in Procs : DeletePreset(p)
    \/ \E p \in Procs : JobStatus(p)

Spec == Init /\ [][Next]_vars

\* ------------------------------------------------------------------------
\* parseS3URL and createVideoPreset called on their own: they make no remote
\* call and touch no state, so a call is one step from its argument to what
\* it returns; the arguments are drawn when the behaviour begins
\* ------------------------------------------------------------------------
\* the most path segments of the URLs built from Segments
MaxSegments == 2

\* what stands before the host: a scheme, no scheme, a missing scheme
Prefixes == {<<"h","t","t","p","s",":","/","/">>, <<"/","/">>, <<":","/","/">>}

\* hosts: three of the table (one of each spelling), one of the table with a
\* port, one of the table in capitals, one not of the table
Hosts ==
    { <<"s","3","-","u","s","-","w","e","s","t","-","2">> \o amazonaws,
      <<"s","3">> \o amazonaws,
      dualstack \o <<"s","a","-","e","a","s","t","-","1">> \o amazonaws,
      <<"s","3">> \o amazonaws \o <<":","4","4","3">>,
      <<"S","3">> \o amazonaws,
      <<"e","x","a","m","p","l","e",".","c","o","m">> }

\* path segments: empty, plain, with an escaped slash, with a broken escape
Segments ==
    { <<>>, <<"m","y","b","u","c","k","e","t">>, <<"p","a","t","h">>,
      <<"v","i","d","e","o",".","m","p","4">>, <<"a","%","2","F","b">>, <<"%","z","z">> }

\* the paths of n segments, each with the slash before it
RECURSIVE Paths(_)
Paths(n) ==
    IF n = 0 THEN {<<>>}
    ELSE {<<>>} \cup {<<"/">> \o seg \o rest : seg \in Segments, rest \in Paths(n - 1)}

\* what follows the path: nothing, or a query and a fragment
Suffixes == {<<>>, <<"?","x","#","x">>}

\* https://s3-us-west-2.amazonaws.com/mybucket/path/video.mp4
ExampleURL ==
    <<"h","t","t","p","s",":","/","/">>
    \o <<"s","3","-","u","s","-","w","e","s","t","-","2">> \o amazonaws
    \o <<"/">> \o <<"m","y","b","u","c","k","e","t">>
    \o <<"/">> \o <<"p","a","t","h">>
    \o <<"/">> \o <<"v","i","d","e","o",".","m","p","4">>

URLs ==
    {prefix \o host \o path \o suffix :
        prefix \in Prefixes, host \in Hosts, path \in Paths(MaxSegments),
        suffix \in Suffixes}
    \cup {ExampleURL}

\* the video descriptors passed to createVideoPreset
Profiles == {<<"H","i","g","h">>, <<"h","i">>, <<>>}
Levels ==
    { <<>>, <<"1">>, <<"1","b">>, <<"1",".","1">>, <<"1","_","1">>, <<"1","B">>, <<"4">>,
      <<"5",".","2">>, <<"5",".","3">> }
Numbers == {<<>>, <<"6","4">>, <<"-","3">>, <<"6","k">>}

VideoPresets ==
    {MkPreset(aac, <<"6","4">>, h264, profile, level, width, height, bitrate, gop) :
        profile \in Profiles, level \in Levels, width \in Numbers,
        height \in Numbers, bitrate \in Numbers, gop \in Numbers}

\* a call of fn with argument arg, about to be made
Pending(fn, arg) == [fn |-> fn, arg |-> arg, ret |-> <<>>, done |-> FALSE]

InitPure ==
    /\ audios = <<>>
    /\ videos = InitVideos(0)
    /\ nextID = 4
    /\ job = [p \in Procs |-> NoJob]
    /\ pc = [p \in Procs |-> "idle"]
    /\ op = [p \in Procs |-> "none"]
    /\ preset = [p \in Procs |-> <<>>]
    /\ handle = [p \in Procs |-> 0]
    /\ totalCount = [p \in Procs |-> 0]
    /\ items = [p \in Procs |-> <<>>]
    /\ audioConfigID = [p \in Procs |-> 0]
    /\ h264Config = [p \in Procs |-> <<>>]
    /\ result = [p \in Procs |-> NoResult]
    /\ log = [p \in Procs |-> <<>>]
    /\ ops = 0
    /\ solo = [p \in Procs |-> FALSE]
    /\ prev = <<>>
    /\ base = [p \in Procs |-> <<>>]
    /\ deletedRefs = {}
    /\ madeFrom = <<>>
    /\ \/ \E input \in URLs : call = Pending("parseS3URL", input)
       \/ \E pr \in VideoPresets : call = Pending("createVideoPreset", pr)

CallParseS3URL ==
    /\ call.fn = "parseS3URL"
    /\ ~call.done
    /\ call' = [call EXCEPT !.ret = parseS3URL(call.arg), !.done = TRUE]
    /\ UNCHANGED <<audios, videos, nextID, job, pc, op, preset, handle, totalCount,
                   items, audioConfigID, h264Config, result, log, ops, solo, prev,
                   base, deletedRefs, madeFrom>>

CallCreateVideoPreset ==
    /\ call.fn = "createVideoPreset"
    /\ ~call.done
    /\ call' = [call EXCEPT !.ret = createVideoPreset(call.arg), !.done = TRUE]
    /\ UNCHANGED <<audios, videos, nextID, job, pc, op, preset, handle, totalCount,
                   items, audioConfigID, h264Config, result, log, ops, solo, prev,
                   base, deletedRefs, madeFrom>>

NextPure ==
    \/ CallParseS3URL
    \/ CallCreateVideoPreset

SpecPure == InitPure /\ [][NextPure]_vars

\* ------------------------------------------------------------------------
\* what the properties below speak of
\* ------------------------------------------------------------------------
\* caller p has run operation name to its end
Done(p, name) == pc[p] = "idle" /\ op[p] = name /\ result[p].kind # "none"

\* it returned (rather than panicked), and with a nil error
Returned(p) == result[p].kind = "return"
Succeeded(p) == Returned(p) /\ result[p].err = NoError

\* every remote call of p's operation was answered with status SUCCESS
AllOk(p) == \A i \in 1..Len(log[p]) : log[p][i].outcome = "ok"

Called(p, site) == \E i \in 1..Len(log[p]) : log[p][i].site = site

CodecsSupported(pr) ==
    /\ ToLower(pr.Audio.Codec) = <<"a","a","c">>
    /\ ToLower(pr.Video.Codec) = <<"h","2","6","4">>

ValidPreset(pr) ==
    /\ CodecsSupported(pr)
    /\ Atoi(pr.Audio.Bitrate).ok
    /\ createVideoPreset(pr).cfg # NilPtr

\* caller p's operation directly followed a CreatePreset that ran alone and
\* returned a handle, and no other caller has acted since p's began
Follows(p) == Len(base[p]) = 1 /\ solo[p]

\* ------------------------------------------------------------------------
\* C1.  Two CreatePreset calls with the same audio bitrate, run one after
\* the other with nothing in between: the second finds the audio
\* configuration the first one used, issues no audio create call and
\* attaches the same audio identifier to its video configuration.
\* ------------------------------------------------------------------------
C1_SecondCallReuses ==
    \A p \in Procs :
        ( /\ Done(p, "CreatePreset")
          /\ Succeeded(p)
          /\ Follows(p)
          /\ AudioBitrate(base[p][1].preset) = AudioBitrate(preset[p]) )
        => /\ ~Called(p, "acreate")
           /\ RefsOf(VideoOf(result[p].val[1])) = {base[p][1].audio}

\* ------------------------------------------------------------------------
\* C2.  A valid preset (codecs "aac" and "h264" in any case) is accepted by
\* CreatePreset, and GetPreset on the handle returns, without error, the
\* video and audio configurations with the preset's bitrate, profile and
\* level.
\* ------------------------------------------------------------------------
C2_CreateThenGet ==
    \A p \in Procs :
        /\ ( /\ Done(p, "CreatePreset")
             /\ ValidPreset(preset[p])
             /\ AllOk(p) )
           => Succeeded(p)
        /\ ( /\ Done(p, "GetPreset")
             /\ Follows(p)
             /\ log[p][1].arg = base[p][1].handle
             /\ AllOk(p) )
           => /\ Succeeded(p)
              /\ Len(result[p].val) = 1
              /\ LET got  == result[p].val[1]
                     made == createVideoPreset(base[p][1].preset).cfg[1]
                 IN  /\ got.Video.Bitrate = made.Bitrate
                     /\ got.Video.Profile = made.Profile
                     /\ got.Video.Level = made.Level
                     /\ got.Audio.Bitrate = AudioBitrate(base[p][1].preset)

\* ------------------------------------------------------------------------
\* C3.  A preset whose audio codec is not "aac" or whose video codec is not
\* "h264" (both compared without regard to case) makes CreatePreset return
\* an unsupported-codec error, with no remote call issued before it.
\* ------------------------------------------------------------------------
C3_UnsupportedCodecFirst ==
    \A p \in Procs :
        (Done(p, "CreatePreset") /\ ~CodecsSupported(preset[p]))
        => /\ Returned(p)
           /\ result[p].val = <<0>>
           /\ Len(result[p].err) = 1
           /\ \/ /\ result[p].err[1].msg = "Unsupported Audio codec: "
                 /\ result[p].err[1].arg = preset[p].Audio.Codec
              \/ /\ result[p].err[1].msg = "Unsupported Video codec: "
                 /\ result[p].err[1].arg = preset[p].Video.Codec
           /\ log[p] = <<>>

\* a CreatePreset that refused a preset for its video codec
C3_Witness ==
    \E p \in Procs :
        /\ Done(p, "CreatePreset")
        /\ ToLower(preset[p].Audio.Codec) = <<"a","a","c">>
        /\ ToLower(preset[p].Video.Codec) # <<"h","2","6","4">>
        /\ result[p].err # NoError
        /\ log[p] = <<>>

\* ------------------------------------------------------------------------
\* C4.  No operation panics; when the video translation inside CreatePreset
\* fails, CreatePreset returns the translation's error.
\* ------------------------------------------------------------------------
C4_ErrorsAreReturned ==
    \A p \in Procs :
        /\ result[p].kind # "panic"
        /\ ( /\ Done(p, "CreatePreset")
             /\ CodecsSupported(preset[p])
             /\ Atoi(preset[p].Audio.Bitrate).ok
             /\ createVideoPreset(preset[p]).cfg = NilPtr
             /\ AllOk(p) )
           => (Returned(p) /\ result[p].err = createVideoPreset(preset[p]).err)

\* ------------------------------------------------------------------------
\* C5.  DeletePreset issues one remote call, the deletion of the video
\* configuration; the audio configuration a deleted preset referred to still
\* exists, and is in the listing a later CreatePreset looks its bitrate up in.
\* ------------------------------------------------------------------------
C5_DeleteLeavesAudio ==
    \A p \in Procs :
        /\ Done(p, "DeletePreset")
           => (Len(log[p]) = 1 /\ log[p][1].site = "vdel")
        /\ \A id \in deletedRefs : HasAudio(id)
        /\ (op[p] = "CreatePreset" /\ pc[p] \in {"acreate", "vcreate"} /\ solo[p])
           => \A id \in deletedRefs :
                 AudioOf(id).Bitrate = AudioBitrate(preset[p])
                 => \E i \in 1..Len(items[p]) : items[p][i].ID = id

\* ------------------------------------------------------------------------
\* C6.  Two interleaved CreatePreset calls with the same audio bitrate may
\* both miss and both create an audio configuration; each call on a valid
\* preset still returns a handle, and the video configuration it names
\* refers to an existing audio configuration with the requested bitrate.
\* ------------------------------------------------------------------------
C6_RacingCreatesSucceed ==
    \A p \in Procs :
        ( /\ Done(p, "CreatePreset")
          /\ ValidPreset(preset[p])
          /\ AllOk(p) )
        => /\ Succeeded(p)
           /\ Called(p, "vcreate")
           /\ HasVideo(result[p].val[1])
              => \E id \in RefsOf(VideoOf(result[p].val[1])) :
                    /\ id # 0
                    /\ HasAudio(id)
                    /\ AudioOf(id).Bitrate = AudioBitrate(preset[p])

\* a caller that listed the catalog, missed, and created an audio
\* configuration after another caller, which had listed and missed as well,
\* created one with the same bitrate; it returned a handle all the same
C6_Witness ==
    \E p \in Procs :
        /\ Done(p, "CreatePreset")
        /\ Succeeded(p)
        /\ Len(log[p]) = 4
        /\ log[p][2].site = "list2"
        /\ log[p][3].site = "acreate"
        /\ \E i, j \in 1..Len(audios) :
              /\ audios[i].ID = log[p][3].next
              /\ audios[j].ID >= log[p][2].next
              /\ audios[j].ID < log[p][3].next
              /\ audios[i].Bitrate = AudioBitrate(preset[p])
              /\ audios[j].Bitrate = AudioBitrate(preset[p])

\* ------------------------------------------------------------------------
\* C7.  A remote call answered with status ERROR ends the operation: it
\* returns an error that names the failed operation and carries the
\* service's message, and issues no further remote call.
\* ------------------------------------------------------------------------
C7_ServiceErrorIsNamed ==
    \A p \in Procs : \A i \in 1..Len(log[p]) :
        log[p][i].outcome = "ERROR"
        => /\ i = Len(log[p])
           /\ pc[p] = "idle"
           /\ Returned(p)
           /\ Len(result[p].err) = 1
           /\ result[p].err[1].msg = ServiceMessage(log[p][i].site).msg
           /\ result[p].err[1].arg = <<log[p][i].site>>

\* ------------------------------------------------------------------------
\* C8.  Within one operation no remote call is made twice, and a remote call
\* that fails in the transport ends the operation: it returns that very
\* error, and issues no further remote call.
\* ------------------------------------------------------------------------
C8_TransportErrorAsIs ==
    \A p \in Procs :
        /\ \A i, j \in 1..Len(log[p]) : log[p][i].site = log[p][j].site => i = j
        /\ \A i \in 1..Len(log[p]) :
              log[p][i].outcome = "transport"
              => /\ i = Len(log[p])
                 /\ pc[p] = "idle"
                 /\ Returned(p)
                 /\ result[p].err = TransportError(log[p][i].site)

\* a CreatePreset whose audio create call failed in the transport
C8_Witness ==
    \E p \in Procs :
        /\ Done(p, "CreatePreset")
        /\ Len(log[p]) = 3
        /\ log[p][3].site = "acreate"
        /\ log[p][3].outcome = "transport"
        /\ result[p].err = TransportError("acreate")

\* ------------------------------------------------------------------------
\* C9.  GetPreset on a video configuration without an "audio" entry, or with
\* one that is not a string, returns a missing-audio-reference error and
\* retrieves no audio configuration; with a string entry, the audio
\* configuration it retrieves is the one the string names.
\* ------------------------------------------------------------------------
C9_AudioReferenceChecked ==
    \A p \in Procs :
        (Done(p, "GetPreset") /\ log[p][1].outcome = "ok")
        => LET v       == h264Config[p][1]
               entries == {e \in v.CustomData : e.key = "audio"}
           IN  IF \A e \in entries : e.val.type # "string"
               THEN /\ Len(log[p]) = 1
                    /\ Returned(p)
                    /\ result[p].val = <<>>
                    /\ Len(result[p].err) = 1
                    /\ result[p].err[1].msg \in
                          {"No Audio configuration found for Video Preset",
                           "Audio Configuration somehow not a string"}
               ELSE /\ Len(log[p]) = 2
                    /\ log[p][2].site = "aget"
                    /\ \E e \in entries : log[p][2].arg = e.val.str
                    /\ log[p][2].outcome = "ok"
                       => result[p].val[1].Audio.ID = log[p][2].arg

\* a GetPreset that met an "audio" entry that is not a string
C9_Witness ==
    \E p \in Procs :
        /\ Done(p, "GetPreset")
        /\ log[p][1].outcome = "ok"
        /\ \E e \in h264Config[p][1].CustomData :
              e.key = "audio" /\ e.val.type = "number"
        /\ result[p].err =
              ErrorOf(Text("Audio Configuration somehow not a string", <<>>))

\* ------------------------------------------------------------------------
\* C10.  JobStatus does not return the status Finished for a job whose
\* encode phase is complete and whose manifest phase is pending: it returns
\* Finished only when both phases are complete.
\* ------------------------------------------------------------------------
Finished(r) == r.val # NilPtr /\ r.val[1].Status = "finished"

C10_FinishedOnlyAfterManifest ==
    \A p \in Procs :
        (Done(p, "JobStatus") /\ Finished(result[p]))
        => (job[p].encode = "complete" /\ job[p].manifest = "complete")

\* a poll of a job whose encode phase is complete and manifest phase pending
C10_Witness ==
    \E p \in Procs :
        /\ Done(p, "JobStatus")
        /\ job[p].encode = "complete"
        /\ job[p].manifest = "pending"
        /\ Returned(p)
\* ------------------------------------------------------------------------
\* what the properties of parseS3URL and createVideoPreset speak of
\* ------------------------------------------------------------------------
\* the function was called, and has returned
Called1(fn) == call.fn = fn /\ call.done

KnownHost(host) == \E e \in s3UrlCloudRegionMap : e[1] = host

\* the final segment of a path: what follows its last slash
FinalSegment(path) == SubSeq(path, LastIndex(path, "/") + 1, Len(path))

\* a path without its final segment, without the slash at its end and
\* without the slash at its front
Directory(path) ==
    LET cut   == SubSeq(path, 1, LastIndex(path, "/"))
        front == IF cut # <<>> /\ cut[Len(cut)] = "/"
                 THEN SubSeq(cut, 1, Len(cut) - 1) ELSE cut
    IN  IF front # <<>> /\ front[1] = "/" THEN Tail(front) ELSE front

\* ------------------------------------------------------------------------
\* C11.  For a URL that parses and whose host is a key of the table,
\* parseS3URL returns no error, the final segment of the path as the file
\* name, the path without that segment and without the slashes at its two
\* ends as the bucket name, and the table's region of the host;
\* https://s3-us-west-2.amazonaws.com/mybucket/path/video.mp4 gives
\* (video.mp4, mybucket/path, the region of us-west-2).
\* ------------------------------------------------------------------------
C11_KnownHostResolves ==
    Called1("parseS3URL")
    => LET u == Parse(call.arg)
       IN  /\ (u.ok /\ KnownHost(u.Host))
              => /\ call.ret.err = NoError
                 /\ call.ret.fileName = FinalSegment(u.Path)
                 /\ call.ret.bucketName = Directory(u.Path)
                 /\ <<u.Host, call.ret.cloudRegion>> \in s3UrlCloudRegionMap
           /\ call.arg = ExampleURL
              => call.ret = Location(<<"v","i","d","e","o",".","m","p","4">>, <<"m","y","b","u","c","k","e","t","/","p","a","t","h">>, "AWSCloudRegionUSWest2", NoError)

\* a URL of a known host whose path has a directory named like the file
C11_Witness ==
    /\ Called1("parseS3URL")
    /\ KnownHost(Parse(call.arg).Host)
    /\ Parse(call.arg).Path = <<"/","p","a","t","h","/","p","a","t","h">>
    /\ call.ret.fileName = <<"p","a","t","h">>
    /\ call.ret.bucketName = <<"p","a","t","h">>
    /\ call.ret.err = NoError

\* ------------------------------------------------------------------------
\* C12.  For a URL that parses and whose host is no key of the table,
\* parseS3URL returns an error that names the host, with an empty file
\* name, bucket name and region; and it returns an error only when the URL
\* does not parse or its host is no key of the table.
\* ------------------------------------------------------------------------
C12_UnknownHostFails ==
    Called1("parseS3URL")
    => LET u == Parse(call.arg)
       IN  /\ (u.ok /\ ~KnownHost(u.Host))
              => call.ret =
                    Location(<<>>, <<>>, "",
                             ErrorOf(Text("Unable to determine AWS Region from Host: ",
                                          u.Host)))
           /\ call.ret.err # NoError
              => /\ ~u.ok \/ ~KnownHost(u.Host)
                 /\ call.ret.fileName = <<>>
                 /\ call.ret.bucketName = <<>>
                 /\ call.ret.cloudRegion = ""

\* a URL with a path of two segments whose host the table does not hold
C12_Witness ==
    /\ Called1("parseS3URL")
    /\ Parse(call.arg).ok
    /\ Parse(call.arg).Host = <<"e","x","a","m","p","l","e",".","c","o","m">>
    /\ Parse(call.arg).Path = <<"/","m","y","b","u","c","k","e","t","/","v","i","d","e","o",".","m","p","4">>
    /\ call.ret.err # NoError
    /\ call.ret.err[1].arg = <<"e","x","a","m","p","l","e",".","c","o","m">>
    /\ call.ret.fileName = <<>>
\* the profile is one createVideoPreset knows, the level one of the table
ProfileRecognized(v) == ProfileOf(ToLower(v.Profile)) # <<>>

LevelInTable(v) == \E i \in 1..Len(h264Levels) : h264Levels[i] = v.ProfileLevel

\* createVideoPreset returned a configuration / returned an error
Translated(r) == r.cfg # NilPtr /\ r.err = NoError

Failed(r) == r.cfg = NilPtr /\ r.err # NoError

\* ------------------------------------------------------------------------
\* C13.  createVideoPreset sets the level of the configuration to an entry
\* of the level table only when ProfileLevel is that very entry; a
\* ProfileLevel that is no entry of the table (the empty string, "1_1", a
\* string that another entry is a prefix of or that is a prefix of another
\* entry) selects no entry: the call fails, with the unrecognized-level
\* error once the profile is recognized.
\* ------------------------------------------------------------------------
C13_LevelExactMatch ==
    Called1("createVideoPreset")
    => LET v == call.arg.Video
           r == call.ret
       IN  /\ Translated(r) \/ Failed(r)
           /\ Translated(r) => (LevelInTable(v) /\ r.cfg[1].Level = v.ProfileLevel)
           /\ ~LevelInTable(v)
              => /\ Failed(r)
                 /\ ProfileRecognized(v)
                    => r.err = ErrorOf(Text("Unrecognized H264 Level: ", v.ProfileLevel))
           /\ (LevelInTable(v) /\ Failed(r))
              => r.err[1].msg # "Unrecognized H264 Level: "

\* the level "1", which the entries "1b" and "1.1" begin with, selected "1"
C13_Witness ==
    /\ Called1("createVideoPreset")
    /\ call.arg.Video.ProfileLevel = <<"1">>
    /\ Translated(call.ret)
    /\ call.ret.cfg[1].Level = <<"1">>

\* ------------------------------------------------------------------------
\* C14.  In createVideoPreset an empty Width, Height or GopSize leaves the
\* field of the configuration unset and causes no error, one that holds an
\* integer sets the field to that integer, and one that holds something else
\* makes the call fail; an empty Bitrate makes it fail (with the error that
\* the bitrate must be set, when the checks before it pass), and a Bitrate
\* that is no integer makes it fail as well.
\* ------------------------------------------------------------------------
IsInteger(s) == s # <<>> /\ Atoi(s).ok

\* the field is unset for the empty string, and the integer of s otherwise
AsAsked(s, field) ==
    IF s = <<>> THEN field = NilPtr ELSE IsInteger(s) /\ field = intToPtr(Atoi(s).val)

C14_NumericFields ==
    Called1("createVideoPreset")
    => LET v == call.arg.Video
           r == call.ret
       IN  /\ Translated(r) \/ Failed(r)
           /\ Translated(r)
              => /\ AsAsked(v.Width, r.cfg[1].Width)
                 /\ AsAsked(v.Height, r.cfg[1].Height)
                 /\ AsAsked(v.GopSize, r.cfg[1].MaxGOP)
                 /\ IsInteger(v.Bitrate)
                 /\ r.cfg[1].Bitrate = intToPtr(Atoi(v.Bitrate).val)
           /\ ( /\ ProfileRecognized(v) /\ LevelInTable(v) /\ IsInteger(v.Bitrate)
                /\ \A s \in {v.Width, v.Height, v.GopSize} : s = <<>> \/ IsInteger(s) )
              => Translated(r)
           /\ (\E s \in {v.Width, v.Height, v.GopSize, v.Bitrate} :
                  s # <<>> /\ ~IsInteger(s))
              => Failed(r)
           /\ v.Bitrate = <<>>
              => /\ Failed(r)
                 /\ ( /\ ProfileRecognized(v) /\ LevelInTable(v)
                      /\ \A s \in {v.Width, v.Height} : s = <<>> \/ IsInteger(s) )
                    => r.err = ErrorOf(Text("Video Bitrate must be set", <<>>))

\* a preset with an empty Width and GopSize and a Height of 64
C14_Witness ==
    /\ Called1("createVideoPreset")
    /\ call.arg.Video.Width = <<>>
    /\ call.arg.Video.Height = <<"6","4">>
    /\ call.arg.Video.GopSize = <<>>
    /\ Translated(call.ret)
    /\ call.ret.cfg[1].Width = NilPtr
    /\ call.ret.cfg[1].Height = intToPtr(64)
    /\ call.ret.cfg[1].MaxGOP = NilPtr
\* ------------------------------------------------------------------------
\* C15.  The second list call of CreatePreset asks for a range that covers
\* all the entries the first call counted, so that the scan goes over every
\* audio configuration there is and picks the first one listed whose bitrate
\* is the requested one (none when no configuration has it).
\* ------------------------------------------------------------------------
C15_SecondListCoversAll ==
    \A p \in Procs :
        ( /\ op[p] = "CreatePreset"
          /\ pc[p] \in {"acreate", "vcreate"}
          /\ Len(log[p]) = 2 )
        => /\ totalCount[p] >= 1 => log[p][2].arg >= totalCount[p]
           /\ solo[p]
              => /\ items[p] = audios
                 /\ LET same == {i \in 1..Len(audios) :
                                    audios[i].Bitrate = AudioBitrate(preset[p])}
                    IN  IF same = {} THEN audioConfigID[p] = 0
                        ELSE \E i \in same :
                                /\ \A j \in same : i <= j
                                /\ audioConfigID[p] = audios[i].ID
\* ------------------------------------------------------------------------
\* C16.  CreatePreset validates the whole preset before it changes anything
\* remotely: a call with a preset that is invalid for any reason creates no
\* audio configuration and no video configuration, and leaves the remote
\* catalog as it was.
\* ------------------------------------------------------------------------
\* the create calls of p's operation that the service carried out
Created(p, site) ==
    {i \in 1..Len(log[p]) : log[p][i].site = site /\ log[p][i].outcome = "ok"}

C16_ValidatesBeforeMutating ==
    \A p \in Procs :
        (Done(p, "CreatePreset") /\ ~ValidPreset(preset[p]))
        => /\ Created(p, "acreate") = {}
           /\ Created(p, "vcreate") = {}
           /\ (solo[p] /\ log[p] # <<>>) => nextID = log[p][1].next

\* C16, amended.  A call with an invalid preset creates no video
\* configuration.  It creates no audio configuration when the preset is
\* invalid for a codec or for its audio bitrate; when only the video part is
\* invalid the audio part is resolved first, and the call may have created
\* one audio configuration, of the preset's audio bitrate, before it fails.
C16_InvalidPresetEffects ==
    \A p \in Procs :
        (Done(p, "CreatePreset") /\ ~ValidPreset(preset[p]))
        => /\ ~Called(p, "vcreate")
           /\ (~CodecsSupported(preset[p]) \/ ~Atoi(preset[p].Audio.Bitrate).ok)
              => /\ ~Called(p, "acreate")
                 /\ (solo[p] /\ log[p] # <<>>) => nextID = log[p][1].next
           /\ Cardinality(Created(p, "acreate")) <= 1
           /\ \A i \in Created(p, "acreate") :
                 /\ log[p][i].arg = AudioBitrate(preset[p])
                 /\ HasAudio(log[p][i].next)
                 /\ AudioOf(log[p][i].next).Bitrate = AudioBitrate(preset[p])
                 /\ solo[p] => nextID = log[p][1].next + 1
           /\ (solo[p] /\ log[p] # <<>> /\ Created(p, "acreate") = {})
              => nextID = log[p][1].next

\* a call with a preset of an unrecognized profile that created an audio
\* configuration and no video configuration
C16_Witness ==
    \E p \in Procs :
        /\ Done(p, "CreatePreset")
        /\ CodecsSupported(preset[p])
        /\ Atoi(preset[p].Audio.Bitrate).ok
        /\ ~ProfileRecognized(preset[p].Video)
        /\ solo[p]
        /\ Created(p, "acreate") # {}
        /\ ~Called(p, "vcreate")
        /\ nextID = log[p][1].next + 1
\* ------------------------------------------------------------------------
\* C17.  In every reachable state, every H264 configuration that a
\* CreatePreset created and that still exists carries an "audio" entry that
\* is a string, not empty, naming an audio configuration that exists and
\* has the audio bitrate of the preset the configuration was created from.
\* ------------------------------------------------------------------------
C17_ReferentialIntegrity ==
    \A k \in 1..Len(madeFrom) :
        HasVideo(madeFrom[k].video)
        => LET entries == {e \in VideoOf(madeFrom[k].video).CustomData : e.key = "audio"}
           IN  /\ Cardinality(entries) = 1
               /\ \A e \in entries :
                     /\ e.val.type = "string"
                     /\ e.val.str # 0
                     /\ HasAudio(e.val.str)
                     /\ AudioOf(e.val.str).Bitrate = madeFrom[k].bitrate

\* next to the H264 configuration an earlier CreatePreset left, a
\* CreatePreset created one that refers to an audio configuration its scan
\* found
C17_Witness ==
    \E p \in Procs :
        /\ Done(p, "CreatePreset")
        /\ Succeeded(p)
        /\ ~Called(p, "acreate")
        /\ Len(madeFrom) = 2
        /\ HasVideo(madeFrom[1].video)
        /\ madeFrom[2].video = result[p].val[1]
        /\ HasVideo(madeFrom[2].video)

\* ------------------------------------------------------------------------
\* C18.  A CreatePreset call that returns a handle has made exactly one
\* video create call, as its last call and after the audio identifier was
\* found or created, and the handle is the identifier of the H264
\* configuration that call created; the handles of the successful calls are
\* pairwise distinct, also for identical presets, and each call adds a
\* configuration.
\* ------------------------------------------------------------------------
C18_VideosNeverDeduplicated ==
    /\ \A i, j \in 1..Len(madeFrom) : madeFrom[i].video = madeFrom[j].video => i = j
    /\ \A p \in Procs :
          (Done(p, "CreatePreset") /\ Succeeded(p))
          => LET n == Len(log[p])
             IN  /\ Cardinality({i \in 1..n : log[p][i].site = "vcreate"}) = 1
                 /\ n >= 3
                 /\ log[p][n].site = "vcreate"
                 /\ log[p][n - 1].site \in {"list2", "acreate"}
                 /\ log[p][n - 1].outcome = "ok"
                 /\ audioConfigID[p] # 0
                 /\ result[p].val = <<log[p][n].next>>
                 /\ nextID = log[p][n].next + 1
                 /\ HasVideo(result[p].val[1])
                 /\ RefsOf(VideoOf(result[p].val[1])) = {audioConfigID[p]}
                 /\ madeFrom[Len(madeFrom)].video = result[p].val[1]
                 /\ Follows(p)
                    => /\ result[p].val[1] # base[p][1].handle
                       /\ HasVideo(base[p][1].handle)

\* the second of two successful calls with the same preset, run one after
\* the other, that attached the same audio configuration as the first
C18_Witness ==
    \E p \in Procs :
        /\ Done(p, "CreatePreset")
        /\ Succeeded(p)
        /\ Follows(p)
        /\ base[p][1].preset = preset[p]
        /\ base[p][1].audio = audioConfigID[p]
        /\ result[p].val[1] # base[p][1].handle
        /\ HasVideo(result[p].val[1])
        /\ HasVideo(base[p][1].handle)
====
